---- MODULE Spec2Model ----
(***************************************************************************)
(* SwanLabApi (src/src/swanlab-api.ts, lines 1-791): one client instance   *)
(* used by concurrent accessor calls.                                      *)
(*                                                                         *)
(* Granularity.  JavaScript runs one macrotask (a network response, a      *)
(* timer, a call from the host) and then every continuation it wakes, up   *)
(* to the next network or timer await, before the next macrotask starts.   *)
(* One action of the model is one macrotask with all its continuations:    *)
(* the response interceptor, login()'s catch/finally and the accessor's    *)
(* code after the await all belong to the action of the response that      *)
(* wakes them.                                                             *)
(***************************************************************************)
EXTENDS Integers, Sequences, FiniteSets, TLC

VARIABLES
    loginInfo,    \* SwanLabApi.loginInfo: Null or the stored session
    cookie,       \* axiosInstance.defaults.headers.common['Cookie']: 0 = unset, else the sid
    baseURL,      \* axiosInstance.defaults.baseURL is set
    isLoggingIn,  \* SwanLabApi.isLoggingIn
    calls,        \* the accessor call of each caller: position, locals, request in flight
    nCalls,       \* accessor calls started so far
    n401,         \* HTTP 401 answers given to resource requests so far
    loginsSent,   \* login requests sent so far
    sidsIssued,   \* sessions the server has issued so far
    tools,        \* the tool invocation of each caller (the callers of the tool layer)
    apis,         \* the fields of the SwanLabApi instances the tool layer constructed
    this          \* the instance whose fields the four variables above hold; 0: the
                  \* instance of Init

vars == <<loginInfo, cookie, baseURL, isLoggingIn, calls, nCalls, n401, loginsSent, sidsIssued,
          tools, apis, this>>
\* the tool layer (src/unnamed/part_001); the steps of the client leave it alone
toolVars == <<tools, apis, this>>

(***************************************************************************)
(* Bounds of the model and constants of the program.                       *)
(***************************************************************************)
\* accessor calls started in one behaviour
MaxCalls == 2
\* 401 answers the server gives to resource requests in one behaviour
Max401 == 2
\* pages one list call may fetch
MaxPage == 3
\* longest short (non-full) page the server returns
MaxShort == 1
\* characters of a CSV cell drawn from the alphabet
MaxCell == 3
\* const size = 10
Size == 10

Callers == {"c1", "c2"}

Ops == {"listWorkspaces", "listProjects", "deleteProject", "listExperiments",
        "getExperiment", "getSummary", "getMetrics", "deleteExperiment"}
ListOps == {"listProjects", "listExperiments"}
EnvelopeOps == {"listWorkspaces", "deleteProject", "deleteExperiment"}
\* accessors that read this.loginInfo!.username when no username is passed
UsernameOps == Ops \ {"listWorkspaces", "getMetrics"}

Null == [null |-> TRUE]

(***************************************************************************)
(* Errors.  An error is an AxiosError (with the response status, 0 when    *)
(* there was no response) or a plain Error with a message, kept as the     *)
(* sequence of its parts.                                                  *)
(***************************************************************************)
AxiosError(status) == [axios |-> TRUE, status |-> status, msg |-> <<"Request failed">>]
Error(msg) == [axios |-> FALSE, status |-> 0, msg |-> msg]
TypeError == Error(<<"Cannot read properties of null">>)

\* variant: handleAxiosError without its test for 403
handleAxiosErrorWithout403(error) ==
    IF error.axios
    THEN IF error.status = 401 THEN Error(<<"Authentication failed. Please check your API key.">>)
         ELSE IF error.status /= 0 THEN Error(<<ToString(error.status)>>)
         ELSE Error(<<"Network error">> \o error.msg)
    ELSE Error(<<"Unexpected error">> \o error.msg)

handleAxiosError(error) ==
    IF error.axios
    THEN IF error.status = 401 THEN Error(<<"Authentication failed. Please check your API key.">>)
         ELSE IF error.status = 403 THEN Error(<<"You need to be verified first">>)
         ELSE IF error.status /= 0 THEN Error(<<ToString(error.status)>>)
         ELSE Error(<<"Network error">> \o error.msg)
    ELSE Error(<<"Unexpected error">> \o error.msg)

\* the catch block of each accessor
AccessorCatch(op, error) ==
    CASE op \in {"listProjects", "deleteProject", "listExperiments"} -> handleAxiosError(error)
      [] op = "listWorkspaces" ->
            IF error.axios THEN Error(<<"Network error">> \o error.msg)
            ELSE Error(<<"Failed to list workspaces">> \o error.msg)
      [] op = "getExperiment" ->
            IF error.axios THEN Error(<<"Network error">> \o error.msg)
            ELSE Error(<<"Failed to get experiment">> \o error.msg)
      [] op = "getSummary" ->
            IF error.axios THEN Error(<<"Network error">> \o error.msg)
            ELSE Error(<<"Failed to get experiment summary">> \o error.msg)
      [] op = "getMetrics" ->
            IF error.axios THEN Error(<<"Network error">> \o error.msg)
            ELSE Error(<<"Failed to get experiment metrics">> \o error.msg)
      [] op = "deleteExperiment" ->
            IF error.axios THEN Error(<<"Network error">> \o error.msg)
            ELSE Error(<<"Failed to delete experiment">> \o error.msg)

\* response.data.code is undefined: the body has no code field (an empty
\* body included)
NoCode == -1

\* variant: the code of the envelope is not looked at
CodeIgnored(code) == FALSE
\* response.data.code < 200 || response.data.code >= 300; both comparisons
\* are false for undefined
CodeOutOfRange(code) == code /= NoCode /\ (code < 200 \/ code >= 300)

\* handleApiResponse: the envelope {code, errmsg, data}
handleApiResponse(body) ==
    IF body.errmsg THEN [ok |-> FALSE, error |-> Error(<<"errmsg">>)]
    ELSE IF CodeOutOfRange(body.code)
         THEN [ok |-> FALSE, error |-> Error(<<"API error">>)]
         ELSE [ok |-> TRUE, error |-> Error(<<>>)]

(***************************************************************************)
(* The call of one caller.  pc is the await the call is suspended at:      *)
(*   "login"   awaiting the login request sent by the accessor's login()   *)
(*   "wait"    in login()'s one-second wait (line 295)                     *)
(*   "req"     awaiting a request sent through axiosInstance               *)
(*   "relogin" awaiting the login request sent by the interceptor's login()*)
(*   "csv"     awaiting axios.get(url) of getMetrics (line 715)            *)
(*   "done"    the accessor's promise is settled with `result`             *)
(* req is the request in flight and the credential it carries.  The other  *)
(* fields are the accessor's locals and the history of the call.           *)
(***************************************************************************)
NoReq == [kind |-> "none", sid |-> 0]
NoResult == [ok |-> FALSE, error |-> Error(<<>>), value |-> <<>>]

IdleCall ==
    [pc |-> "idle", op |-> "none", user |-> FALSE, keys |-> <<>>,
     given |-> {},        \* the required parameters the caller passed a value for
     step |-> 0,          \* page (list accessors), request 1..3 (getSummary), key index (getMetrics)
     acc |-> <<>>,        \* allProjects / allExperiments / keys stored in metricsData
     req |-> NoReq,
     pages |-> <<>>,      \* the lengths of the pages received, in order of arrival
     total |-> 0,         \* the total the last page declared
     totals |-> <<>>,     \* the totals the pages declared, in order of arrival
     waitFor |-> 0,       \* the login request that was in flight when login() chose to wait
     early |-> FALSE,     \* the wait ended while that login request was still in flight
     relogins |-> 0,      \* logins the interceptor started for the current request
     replays |-> 0,       \* times the interceptor sent the current request again
     resSent |-> 0,       \* requests the call has sent through axiosInstance
     noSession |-> FALSE, \* the accessor found loginInfo null at its start
     sentLogin |-> FALSE, \* the accessor's login() sent a login request
     waited |-> FALSE,    \* the accessor's login() took the one-second wait
     loginThrew |-> FALSE,  \* the accessor's own login() threw
     reloginThrew |-> FALSE,\* the interceptor's login() threw for the current request
     nested |-> FALSE,    \* the interceptor started a login for a 401 of a login request
     thrown |-> Error(<<>>),\* the last error the interceptor rejected with
     data |-> <<>>,       \* getExperiment: data (response.data)
     csv |-> <<>>,        \* getMetrics: lines, of the last CSV retrieved
     csvSent |-> 0,       \* getMetrics: CSV retrievals sent, axios.get(url)
     projectCuid |-> "",  \* getSummary: projectCuid
     requestData |-> {},  \* getSummary: the fields of requestData, as <<name, value>>
     result |-> NoResult]

Return(call, value) ==
    [call EXCEPT !.pc = "done", !.req = NoReq,
                 !.result = [ok |-> TRUE, error |-> Error(<<>>), value |-> value]]
Throw(call, error) ==
    [call EXCEPT !.pc = "done", !.req = NoReq,
                 !.result = [ok |-> FALSE, error |-> error, value |-> <<>>]]

\* axiosInstance.get/post/delete: the request takes the Cookie of the defaults
SendRequest(call, ck) ==
    [call EXCEPT !.pc = "req", !.req = [kind |-> "res", sid |-> ck],
                 !.resSent = @ + 1, !.relogins = 0, !.replays = 0, !.reloginThrew = FALSE]

\* variant: duplicate keys are kept
uniqueKeysKept(keysArray) == keysArray
\* [...new Set(keysArray)]: first occurrences, in order
RECURSIVE uniqueKeys(_)
uniqueKeys(keysArray) ==
    IF keysArray = <<>> THEN <<>>
    ELSE LET front == uniqueKeys(SubSeq(keysArray, 1, Len(keysArray) - 1))
             last == keysArray[Len(keysArray)]
         IN IF \E i \in 1..Len(front) : front[i] = last THEN front ELSE Append(front, last)

\* the items of page p when the server returns n of them
PageItems(p, n) == [i \in 1..n |-> <<p, i>>]

\* variant: the loop also stops at a page shorter than `size`
StopPagingOnShortPage(pageLength, allLength, total) == pageLength < Size \/ allLength >= total
\* variant: the loop does not stop at an empty page
StopPagingOnTotalOnly(pageLength, allLength, total) == allLength >= total
\* variant: the loop goes on until the count exceeds the total
StopPagingPastTotal(pageLength, allLength, total) == pageLength = 0 \/ allLength > total
\* if (projects.length === 0 || allProjects.length >= total) break;
StopPaging(pageLength, allLength, total) == pageLength = 0 \/ allLength >= total

(***************************************************************************)
(* The CSV of getMetrics.  A text is the sequence of its characters; a CSV *)
(* is the sequence of its lines (csvData.trim().split('\n')), a line the   *)
(* sequence of its cells (line.split(',')).                                *)
(***************************************************************************)
NullWord == <<"n", "u", "l", "l">>
UndefinedWord == <<"u", "n", "d", "e", "f", "i", "n", "e", "d">>
\* values[j] when the line has fewer cells than the header line
NoCell == <<"<undefined>">>

RECURSIVE TrimStart(_)
TrimStart(text) ==
    IF text /= <<>> /\ Head(text) = " " THEN TrimStart(Tail(text)) ELSE text
RECURSIVE TrimEnd(_)
TrimEnd(text) ==
    IF text /= <<>> /\ text[Len(text)] = " "
    THEN TrimEnd(SubSeq(text, 1, Len(text) - 1)) ELSE text
\* String.prototype.trim
Trim(text) == TrimEnd(TrimStart(text))

DigitChars == {"0", "1", "2", "3", "4", "5", "6", "7", "8", "9"}
DigitValue(ch) ==
    CASE ch = "0" -> 0 [] ch = "1" -> 1 [] ch = "2" -> 2 [] ch = "3" -> 3 [] ch = "4" -> 4
      [] ch = "5" -> 5 [] ch = "6" -> 6 [] ch = "7" -> 7 [] ch = "8" -> 8 [] ch = "9" -> 9
RECURSIVE DigitsValue(_)
DigitsValue(digits) ==
    IF digits = <<>> THEN 0
    ELSE 10 * DigitsValue(SubSeq(digits, 1, Len(digits) - 1)) + DigitValue(digits[Len(digits)])

\* a value of a row: null, a number (-1)^neg * mant / 10^scale, a string, or
\* undefined
JsCell(t, neg, mant, scale, text) ==
    [t |-> t, neg |-> neg, mant |-> mant, scale |-> scale, text |-> text]
NaN == JsCell("NaN", FALSE, 0, 0, <<>>)

\* Number(text) for texts of digits, signs, dots, spaces and letters: white
\* space around is dropped, the empty text is 0, a signed decimal literal is
\* its value, anything else NaN
Number(text) ==
    LET t == Trim(text)
        signed == t /= <<>> /\ Head(t) \in {"-", "+"}
        body == IF signed THEN Tail(t) ELSE t
        dots == {i \in 1..Len(body) : body[i] = "."}
        dot == IF dots = {} THEN Len(body) + 1 ELSE CHOOSE i \in dots : TRUE
        whole == SubSeq(body, 1, dot - 1)
        frac == SubSeq(body, dot + 1, Len(body))
    IN IF t = <<>> THEN JsCell("number", FALSE, 0, 0, <<>>)
       ELSE IF /\ Cardinality(dots) <= 1
               /\ \A i \in 1..Len(body) : body[i] \in DigitChars \cup {"."}
               /\ Len(whole) + Len(frac) >= 1
            THEN JsCell("number", signed /\ Head(t) = "-", DigitsValue(whole \o frac), Len(frac), <<>>)
            ELSE NaN

\* variant: no value is turned into null
CoerceWithoutNull(value) ==
    IF Number(value) = NaN THEN JsCell("string", FALSE, 0, 0, value) ELSE Number(value)
\* (value === '' || value === 'null' || value === 'undefined') ? null
\*     : isNaN(Number(value)) ? value : Number(value)
Coerce(value) ==
    IF value = NoCell THEN JsCell("undefined", FALSE, 0, 0, <<>>)
    ELSE IF value \in {<<>>, NullWord, UndefinedWord} THEN JsCell("null", FALSE, 0, 0, <<>>)
    ELSE IF Number(value) = NaN THEN JsCell("string", FALSE, 0, 0, value)
    ELSE Number(value)

\* headers, and dataRows: each row maps a header to the value of the last
\* column with that header
Headers(csv) == [j \in 1..Len(csv[1]) |-> Trim(csv[1][j])]
ParseRows(csv) ==
    LET headers == Headers(csv)
        column(h) == CHOOSE j \in 1..Len(headers) :
                        headers[j] = h /\ \A k \in (j + 1)..Len(headers) : headers[k] /= h
        value(i, j) == IF j <= Len(csv[i]) THEN Trim(csv[i][j]) ELSE NoCell
    IN [i \in 1..(Len(csv) - 1) |->
          [h \in {headers[j] : j \in 1..Len(headers)} |-> Coerce(value(i + 1, column(h)))]]

\* for (const key of uniqueKeys) { try { await this.axiosInstance.get(...
MetricsLoop(call, ck) ==
    IF call.step > Len(uniqueKeys(call.keys)) THEN Return(call, call.acc)
    ELSE SendRequest(call, ck)

\* The accessor from its try block to its first request; info and ck are
\* this.loginInfo and the default Cookie at that moment.
AccessorBody(call, info, ck) ==
    IF call.op = "getMetrics" THEN MetricsLoop([call EXCEPT !.step = 1], ck)
    ELSE IF call.op \in UsernameOps /\ ~call.user /\ info = Null
         THEN Throw(call, AccessorCatch(call.op, TypeError))
         ELSE SendRequest([call EXCEPT !.step = 1], ck)

\* variant: getSummary goes on to its next request after a failed one
AccessorFailureSkips(call, error, ck) ==
    IF call.op = "getSummary" /\ call.step < 3
    THEN SendRequest([call EXCEPT !.thrown = error, !.step = @ + 1], ck)
    ELSE Throw([call EXCEPT !.thrown = error], AccessorCatch(call.op, error))
\* variant: getMetrics without its per-key catch
AccessorFailureRaised(call, error, ck) ==
    Throw([call EXCEPT !.thrown = error], AccessorCatch(call.op, error))
\* The accessor's catch for an error of a request sent through axiosInstance.
\* getMetrics catches per key and goes on with the next key.
AccessorFailure(call, error, ck) ==
    LET c1 == [call EXCEPT !.thrown = error]
    IN IF call.op = "getMetrics" THEN MetricsLoop([c1 EXCEPT !.step = @ + 1], ck)
       ELSE Throw(c1, AccessorCatch(call.op, error))

\* a field the payload does not have (undefined; null behaves alike below)
Absent == "<undefined>"
\* value || ""
OrEmpty(value) == IF value = Absent THEN "" ELSE value
\* the expId argument of the accessors
ExpId == "e1"

\* variant: the root ids are added when either of them is there
IsCloneEither(rootExpId, rootProId) == rootExpId /= "" \/ rootProId /= ""
\* if (rootExpId && rootProId)
IsClone(rootExpId, rootProId) == rootExpId /= "" /\ rootProId /= ""

\* requestData of getSummary
RequestData(expId, projectCuid, rootExpId, rootProId) ==
    {<<"experimentId", expId>>, <<"projectId", projectCuid>>}
        \cup (IF IsClone(rootExpId, rootProId)
              THEN {<<"rootExperimentId", rootExpId>>, <<"rootProjectId", rootProId>>}
              ELSE {})

\* if (!response.data)
EmptyBody(body) == ~body.data

(***************************************************************************)
(* getExperiment's record.  A JavaScript value is kept as a string: Absent *)
(* (undefined), JsNull, a string ("" or "abc"), "true", "false", a list    *)
(* ("<list:>" empty, "<list>" not), an object ("<object:>" empty).  The    *)
(* payload and the record are functions from field paths to such values.   *)
(***************************************************************************)
JsNull == "<null>"
EmptyList == "<list:>"
EmptyObject == "<object:>"

\* variant: no default is filled in
NullishKept(value, default) == value
\* value ?? default
Nullish(value, default) == IF value \in {Absent, JsNull} THEN default ELSE value

\* variant: everything counts as a list
IsArrayAlways(value) == TRUE
\* Array.isArray(value)
IsArray(value) == value \in {EmptyList, "<list>"}

\* Boolean(value)
ToBoolean(value) == IF value \in {Absent, JsNull, "", "false"} THEN "false" ELSE "true"

StringFields == {"cuid", "name", "description", "state", "createdAt", "type"}
NullFields == {"finishedAt", "cloneType", "rootExpId", "rootProId"}
ListFields == {"colors", "labels", "tags", "sectionIndex"}
UserFields == {"user.username", "user.name", "user.avatar"}
ProfileFields == {"profile.config", "profile.metadata", "profile.requirements", "profile.conda"}
ExperimentFields ==
    StringFields \cup {"show"} \cup NullFields \cup UserFields \cup ProfileFields \cup ListFields
PayloadFields == ExperimentFields \cup {"user", "profile"}

\* data.field, data.user?.field, data.profile?.field
Get(data, path) ==
    IF path \in UserFields THEN (IF data["user"] \in {Absent, JsNull} THEN Absent ELSE data[path])
    ELSE IF path \in ProfileFields
         THEN (IF data["profile"] \in {Absent, JsNull} THEN Absent ELSE data[path])
         ELSE data[path]

\* the object literal getExperiment returns
NormalizeExperiment(data) ==
    [path \in ExperimentFields |->
        CASE path \in StringFields \cup {"user.username", "user.name"} ->
                Nullish(Get(data, path), "")
          [] path = "show" -> ToBoolean(Get(data, path))
          [] path \in NullFields \cup {"profile.conda"} -> Nullish(Get(data, path), JsNull)
          [] path \in {"user.avatar", "profile.requirements"} -> Nullish(Get(data, path), Absent)
          [] path \in {"profile.config", "profile.metadata"} ->
                Nullish(Get(data, path), EmptyObject)
          [] path \in ListFields ->
                IF IsArray(Get(data, path)) THEN Get(data, path) ELSE EmptyList]

\* variant: the errmsg of the descriptor is not looked at
DescriptorUnusableIgnoringErrmsg(body) == ~body.data \/ ~body.url
\* getMetrics: if (!response || !response.data) continue;
\* if (response.data.errmsg) continue; if (!url) continue;
DescriptorUnusable(body) == ~body.data \/ body.errmsg \/ ~body.url

\* The accessor after a 2xx response with the given body.
AccessorResume(call, body, ck) ==
    CASE call.op \in ListOps ->
            LET all == call.acc \o PageItems(call.step, body.n)
                c1 == [call EXCEPT !.acc = all, !.pages = Append(@, body.n),
                                  !.total = body.total, !.totals = Append(@, body.total)]
            IN IF StopPaging(body.n, Len(all), body.total) THEN Return(c1, all)
               ELSE SendRequest([c1 EXCEPT !.step = @ + 1], ck)
      [] call.op \in EnvelopeOps ->
            IF ~body.data THEN Throw(call, AccessorCatch(call.op, TypeError))
            ELSE LET r == handleApiResponse(body)
                 IN IF ~r.ok THEN Throw(call, AccessorCatch(call.op, r.error))
                    ELSE IF call.op = "listWorkspaces" /\ ~body.inner
                         THEN Throw(call, AccessorCatch(call.op, TypeError))
                         ELSE Return(call, <<>>)
      [] call.op = "getExperiment" ->
            IF ~body.data
            THEN Throw(call, AccessorCatch(call.op, Error(<<"Empty response data received from API">>)))
            ELSE Return([call EXCEPT !.data = body.fields],
                        <<NormalizeExperiment(body.fields)>>)
      [] call.op = "getSummary" ->
            IF call.step = 1
            THEN IF EmptyBody(body)
                 THEN Throw(call, AccessorCatch(call.op, Error(<<"Failed to get project information">>)))
                 ELSE SendRequest([call EXCEPT !.step = 2,
                                      !.projectCuid = OrEmpty(body.fields.cuid)], ck)
            ELSE IF call.step = 2
            THEN IF EmptyBody(body)
                 THEN Throw(call, AccessorCatch(call.op, Error(<<"Failed to get experiment information">>)))
                 ELSE SendRequest([call EXCEPT !.step = 3,
                                      !.requestData = RequestData(ExpId, call.projectCuid,
                                                          OrEmpty(body.fields.rootExpId),
                                                          OrEmpty(body.fields.rootProId))], ck)
            ELSE IF ~body.data THEN Throw(call, AccessorCatch(call.op, TypeError))
            ELSE LET r == handleApiResponse(body)
                 IN IF ~r.ok THEN Throw(call, AccessorCatch(call.op, r.error))
                    \* Object.entries(summaryResponse.data[firstDataKey])
                    ELSE IF ~body.inner THEN Throw(call, AccessorCatch(call.op, TypeError))
                    ELSE Return(call, <<"summary">>)
      [] call.op = "getMetrics" ->
            IF DescriptorUnusable(body)
            THEN MetricsLoop([call EXCEPT !.step = @ + 1], ck)
            ELSE [call EXCEPT !.pc = "csv", !.req = [kind |-> "csv", sid |-> 0],
                              !.csvSent = @ + 1]

(***************************************************************************)
(* A tool invocation.  pc is "idle" (not invoked), "prompt" (no API key:   *)
(* awaiting showErrorMessage), "returned" (the not-configured result was   *)
(* returned) or "ready" (createSwanLabApi returned an instance, api its    *)
(* number, and the invocation goes on in the accessor call of the caller). *)
(***************************************************************************)
IdleTool == [pc |-> "idle", api |-> 0]
\* the fields of an instance after the constructor
NewApi == [loginInfo |-> Null, cookie |-> 0, baseURL |-> FALSE, isLoggingIn |-> FALSE]

(***************************************************************************)
(* The state after `new SwanLabApi(apiKey)`.                               *)
(***************************************************************************)
Init ==
    /\ loginInfo = Null
    /\ cookie = 0
    /\ baseURL = FALSE
    /\ isLoggingIn = FALSE
    /\ calls = [c \in Callers |-> IdleCall]
    /\ nCalls = 0
    /\ n401 = 0
    /\ loginsSent = 0
    /\ sidsIssued = 0
    /\ tools = [c \in Callers |-> IdleTool]
    /\ apis = <<>>
    /\ this = 0

\* variants: the accessor never logs in, or logs in on every call
NeedsLoginNever == FALSE
NeedsLoginAlways == TRUE
\* if (!this.loginInfo) { await this.login(); }
NeedsLogin == loginInfo = Null

\* variant: login() without its guard
LoginGuardMissing == FALSE
\* login(): if (this.isLoggingIn) { wait one second and return }
AlreadyLoggingIn == isLoggingIn

\* variant: the interceptor does not look at the flag
InterceptorRetriesWhileLoggingIn(status) == status = 401
\* variant: the interceptor tests the flag the wrong way round
InterceptorRetriesOnlyWhileLoggingIn(status) == status = 401 /\ isLoggingIn
\* variant: the interceptor also logs in again on 403
InterceptorRetriesOn403(status) == status \in {401, 403} /\ ~isLoggingIn
\* The interceptor's test for a rejected response of the given status.
InterceptorRetries(status) == status = 401 /\ ~isLoggingIn

\* The interceptor after its login() returned: the original request is sent
\* again with the Cookie header set from this.loginInfo.
Replay(call, info) ==
    [call EXCEPT !.pc = "req", !.req = [kind |-> "res", sid |-> info.sid],
                 !.replays = @ + 1, !.resSent = @ + 1]

\* variant: the interceptor rethrows the error of its login()
ReloginFailedWithLoginError(call, error, loginError, ck) ==
    AccessorFailure([call EXCEPT !.reloginThrew = TRUE], loginError, ck)
\* The interceptor's catch (loginError): the original error is thrown.
ReloginFailed(call, error, loginError, ck) ==
    AccessorFailure([call EXCEPT !.reloginThrew = TRUE], handleAxiosError(error), ck)

\* variant: a failed login clears the session
StoredSessionClearedOnFailure(ok, sid) == IF ok THEN [sid |-> sid] ELSE Null
\* this.loginInfo after login() ended: the assignment is reached only past
\* the status check
StoredSession(ok, sid) == IF ok THEN [sid |-> sid] ELSE loginInfo

\* variant: the flag is reset only after a successful login
LoginFinallyOnSuccessOnly(ok) == ~ok
\* login(): finally { this.isLoggingIn = false; }, the flag after login()
\* ended, successfully or not
LoginFinally(ok) == FALSE

\* The error login() throws for a response of the given status.  A rejected
\* response first passes the interceptor, which throws handleAxiosError of it;
\* login()'s catch applies handleAxiosError to what it catches.
LoginError(status) ==
    IF status \in 200..299
    THEN handleAxiosError(Error(<<"Login failed with status", ToString(status)>>))
    ELSE handleAxiosError(handleAxiosError(AxiosError(status)))

\* The required parameters of the accessors besides keys: project, expId.
RequiredParams(op) ==
    CASE op \in {"deleteProject", "listExperiments"} -> {"project"}
      [] op \in {"getExperiment", "getSummary", "deleteExperiment"} -> {"project", "expId"}
      [] op = "getMetrics" -> {"expId"}
      [] OTHER -> {}

(***************************************************************************)
(* A caller calls an accessor: the code up to the first await.  No         *)
(* accessor looks at whether project or expId has a value: an omitted one  *)
(* is put into the URL as it is, after the login.                          *)
(***************************************************************************)
Call(c, op, user, keys, given) ==
    /\ calls[c].pc \in {"idle", "done"}
    /\ nCalls < MaxCalls
    /\ nCalls' = nCalls + 1
    /\ LET call == [IdleCall EXCEPT !.op = op, !.user = user, !.keys = keys,
                                    !.given = given,
                                    !.noSession = (loginInfo = Null)]
       IN IF NeedsLogin
          THEN IF AlreadyLoggingIn
               THEN /\ calls' = [calls EXCEPT ![c] = [call EXCEPT !.pc = "wait",
                                                 !.waited = TRUE, !.waitFor = loginsSent]]
                    /\ UNCHANGED <<isLoggingIn, loginsSent>>
               ELSE /\ calls' = [calls EXCEPT ![c] = [call EXCEPT !.pc = "login",
                                                 !.sentLogin = TRUE,
                                                 !.req = [kind |-> "login", sid |-> 0]]]
                    /\ isLoggingIn' = TRUE
                    /\ loginsSent' = loginsSent + 1
          ELSE /\ calls' = [calls EXCEPT ![c] = AccessorBody(call, loginInfo, cookie)]
               /\ UNCHANGED <<isLoggingIn, loginsSent>>
    /\ UNCHANGED <<loginInfo, cookie, baseURL, n401, sidsIssued>>
    /\ UNCHANGED toolVars

(***************************************************************************)
(* The one-second timer of a waiting login() fires: login() returns and    *)
(* the accessor goes on.                                                   *)
(***************************************************************************)
WaitElapsed(c) ==
    /\ calls[c].pc = "wait"
    /\ LET call == [calls[c] EXCEPT !.early = (isLoggingIn /\ loginsSent = calls[c].waitFor)]
       IN calls' = [calls EXCEPT ![c] = AccessorBody(call, loginInfo, cookie)]
    /\ UNCHANGED <<loginInfo, cookie, baseURL, isLoggingIn, nCalls, n401, loginsSent, sidsIssued>>
    /\ UNCHANGED toolVars

(***************************************************************************)
(* The login endpoint answers the login request of call c (status 0: no    *)
(* response).  login() stores the session or throws, resets the flag, and  *)
(* its caller (the accessor or the interceptor) goes on.                   *)
(***************************************************************************)
LoginResponse(c, status) ==
    /\ calls[c].pc \in {"login", "relogin"}
    /\ UNCHANGED <<nCalls, n401>>
    /\ UNCHANGED toolVars
    /\ IF status \notin 200..299 /\ InterceptorRetries(status)
       THEN \* the interceptor starts a login for the rejected login request
            /\ calls' = [calls EXCEPT ![c].nested = TRUE]
            /\ isLoggingIn' = TRUE
            /\ loginsSent' = loginsSent + 1
            /\ UNCHANGED <<loginInfo, cookie, baseURL, sidsIssued>>
       ELSE LET call == calls[c]
                ok == status = 200
                sid == sidsIssued + 1
                info == StoredSession(ok, sid)
                ck == IF ok THEN sid ELSE cookie
            IN /\ loginInfo' = info
               /\ cookie' = ck
               /\ baseURL' = (baseURL \/ ok)
               /\ sidsIssued' = IF ok THEN sid ELSE sidsIssued
               /\ isLoggingIn' = LoginFinally(ok)
               /\ loginsSent' = loginsSent
               /\ calls' = [calls EXCEPT ![c] =
                    IF call.pc = "login"
                    THEN IF ok THEN AccessorBody(call, info, ck)
                         ELSE Throw([call EXCEPT !.loginThrew = TRUE], LoginError(status))
                    ELSE IF ok THEN Replay(call, info)
                         ELSE ReloginFailed(call, AxiosError(401), LoginError(status), ck)]

(***************************************************************************)
(* The server answers the request call c sent through axiosInstance.       *)
(***************************************************************************)
ResourceResponse(c, status, body) ==
    /\ calls[c].pc = "req"
    /\ status = 401 => n401 < Max401
    /\ n401' = IF status = 401 THEN n401 + 1 ELSE n401
    /\ UNCHANGED <<loginInfo, cookie, baseURL, nCalls, sidsIssued>>
    /\ UNCHANGED toolVars
    /\ LET call == calls[c]
       IN IF status \in 200..299
          THEN /\ (call.op \in ListOps /\ call.step >= MaxPage)
                    => StopPaging(body.n, Len(call.acc) + body.n, body.total)
               /\ calls' = [calls EXCEPT ![c] = AccessorResume(call, body, cookie)]
               /\ UNCHANGED <<isLoggingIn, loginsSent>>
          ELSE IF InterceptorRetries(status)
          THEN /\ calls' = [calls EXCEPT ![c] = [call EXCEPT !.pc = "relogin",
                                !.req = [kind |-> "login", sid |-> 0],
                                !.relogins = @ + 1]]
               /\ isLoggingIn' = TRUE
               /\ loginsSent' = loginsSent + 1
          ELSE /\ calls' = [calls EXCEPT ![c] =
                    AccessorFailure(call, handleAxiosError(AxiosError(status)), cookie)]
               /\ UNCHANGED <<isLoggingIn, loginsSent>>

(***************************************************************************)
(* The export URL answers axios.get(url) of getMetrics: the global axios,  *)
(* no interceptor and no Cookie.  csv is csvData.trim().split('\n').       *)
(***************************************************************************)
CsvResponse(c, status, csv) ==
    /\ calls[c].pc = "csv"
    /\ LET call == calls[c]
           key == uniqueKeys(call.keys)[call.step]
           next == IF status \in 200..299 THEN [call EXCEPT !.step = @ + 1, !.csv = csv]
                   ELSE [call EXCEPT !.step = @ + 1]
       IN calls' = [calls EXCEPT ![c] =
            IF status \in 200..299 /\ Len(csv) >= 2
            THEN MetricsLoop([next EXCEPT !.acc = Append(@, <<key, ParseRows(csv)>>)], cookie)
            ELSE MetricsLoop(next, cookie)]
    /\ UNCHANGED <<loginInfo, cookie, baseURL, isLoggingIn, nCalls, n401, loginsSent, sidsIssued>>
    /\ UNCHANGED toolVars

(***************************************************************************)
(* What the environment may send: the accessor calls of the callers and    *)
(* the answers of the server.  Status 0 stands for no response at all.     *)
(***************************************************************************)
\* data: response.data is not null; errmsg: it has a non-empty errmsg;
\* inner: it has a data field; n, total: the list and total of a page;
\* url: it has a url
Body(data, errmsg, code, inner, n, total, url) ==
    [data |-> data, errmsg |-> errmsg, code |-> code, inner |-> inner,
     n |-> n, total |-> total, url |-> url]

Codes == {199, 200, 299, 300, 500, NoCode}

\* a body with the fields of its payload
Payload(body, fields) ==
    [data |-> body.data, errmsg |-> body.errmsg, code |-> body.code, inner |-> body.inner,
     n |-> body.n, total |-> body.total, url |-> body.url, fields |-> fields]
NullBody == Body(FALSE, FALSE, 200, FALSE, 0, 0, FALSE)
PlainBody == Body(TRUE, FALSE, 200, TRUE, 0, 0, FALSE)
\* a CSV of n lines: the header line and n - 1 rows of one number
Doc(n) == [i \in 1..n |-> IF i = 1 THEN <<<<"s", "t", "e", "p">>>> ELSE <<<<"3">>>>]
Docs == {Doc(n) : n \in 1..3}

\* payloads of the experiment lookup: every field there, no field there, and
\* each of the two with one field changed to each kind of value
JsValues == {Absent, JsNull, "", "abc", "true", "false", EmptyList, "<list>", EmptyObject, "<object>"}
FullExperiment ==
    [path \in PayloadFields |->
        CASE path \in ListFields -> "<list>"
          [] path \in {"user", "profile", "profile.config", "profile.metadata"} -> "<object>"
          [] path = "show" -> "true"
          [] OTHER -> "abc"]
BareExperiment == [path \in PayloadFields |-> Absent]
ExperimentPayloads ==
    {[base EXCEPT ![path] = value] :
        base \in {FullExperiment, BareExperiment}, path \in PayloadFields, value \in JsValues}
Cuids == {Absent, "", "p1"}
RootExpIds == {Absent, "", "re1"}
RootProIds == {Absent, "", "rp1"}

LoginStatuses == {200, 204, 401, 403, 500, 0}
Statuses == {200, 401, 403, 500, 0}
KeyLists == {<<"loss">>, <<"loss", "acc">>, <<"loss", "loss">>, <<"loss", "acc", "lr">>}
KeysOf(op, lists) == IF op = "getMetrics" THEN lists ELSE {<<>>}
\* listWorkspaces() and getMetrics(expId, keys) have no username parameter
UserArgs(op) == IF op \in UsernameOps THEN BOOLEAN ELSE {FALSE}

\* the bodies a 2xx response to the current request of the call may have
Bodies(call, lengths, totals) ==
    CASE call.op \in ListOps ->
            {Body(TRUE, FALSE, 200, TRUE, n, t, FALSE) : n \in lengths, t \in totals}
      [] call.op = "getSummary" /\ call.step = 1 ->
            {NullBody} \cup {Payload(PlainBody, [cuid |-> c]) : c \in Cuids}
      [] call.op = "getSummary" /\ call.step = 2 ->
            {NullBody} \cup {Payload(PlainBody, [rootExpId |-> e, rootProId |-> p]) :
                                e \in RootExpIds, p \in RootProIds}
      [] call.op \in EnvelopeOps \/ (call.op = "getSummary" /\ call.step = 3) ->
            {Body(d, e, code, i, 0, 0, FALSE) :
                d \in BOOLEAN, e \in BOOLEAN, code \in Codes, i \in BOOLEAN}
      [] call.op = "getMetrics" ->
            {Body(d, e, 200, TRUE, 0, 0, u) : d \in BOOLEAN, e \in BOOLEAN, u \in BOOLEAN}
      [] call.op = "getExperiment" ->
            {NullBody, Payload(PlainBody, FullExperiment), Payload(PlainBody, BareExperiment)}
      [] OTHER -> {Body(d, FALSE, 200, TRUE, 0, 0, FALSE) : d \in BOOLEAN}

\* well-formed bodies only
GoodBodies(call, lengths, totals) ==
    {b \in Bodies(call, lengths, totals) :
        b.data /\ ~b.errmsg /\ b.code = 200 /\ b.inner /\ (call.op = "getMetrics" => b.url)}

(***************************************************************************)
(* Spec: two callers use one client concurrently, one accessor call each.  *)
(* The accessors called are one of each kind: a single request without the *)
(* username lookup, a paginated one with it, and the per-key loop.         *)
(***************************************************************************)
ConcurrentOps == {"listWorkspaces", "listProjects", "getMetrics"}

Next ==
    \E c \in Callers :
        \/ \E op \in ConcurrentOps : \E user \in UserArgs(op) :
              \E keys \in KeysOf(op, {<<"loss">>}) :
                 calls[c].pc = "idle" /\ Call(c, op, user, keys, RequiredParams(op))
        \/ WaitElapsed(c)
        \/ \E status \in {200, 401} : LoginResponse(c, status)
        \/ \E status \in {200, 401, 500} :
              \E body \in GoodBodies(calls[c], 0..1, {0, 2}) : ResourceResponse(c, status, body)
        \/ \E status \in {200, 500} : CsvResponse(c, status, Doc(2))

Spec == Init /\ [][Next]_vars

(***************************************************************************)
(* SpecSeq: one caller calls the accessors one after the other; every      *)
(* accessor, every status, well-formed and malformed bodies.               *)
(***************************************************************************)
NextSeq ==
    \E c \in {"c1"} :
        \/ \E op \in Ops : \E user \in UserArgs(op) :
              \E keys \in KeysOf(op, KeyLists) : Call(c, op, user, keys, RequiredParams(op))
        \/ \E status \in LoginStatuses : LoginResponse(c, status)
        \/ \E status \in Statuses :
              \E body \in Bodies(calls[c], 0..1, {0, 2}) : ResourceResponse(c, status, body)
        \/ \E status \in {200, 500}, csv \in Docs : CsvResponse(c, status, csv)

SpecSeq == Init /\ [][NextSeq]_vars

(***************************************************************************)
(* SpecList: one call of a list accessor on a new client; the server       *)
(* returns pages of any length with any declared total.                    *)
(***************************************************************************)
PageLengths == (0..MaxShort) \cup {Size}
Totals == (0..(MaxShort + 1)) \cup {Size, Size + 1, 2 * Size}

NextList ==
    \E c \in {"c1"} :
        \/ \E op \in ListOps, user \in BOOLEAN : calls[c].pc = "idle" /\ Call(c, op, user, <<>>, RequiredParams(op))
        \/ \E status \in {200, 401} : LoginResponse(c, status)
        \/ \E status \in {200, 401, 500} :
              \E body \in Bodies(calls[c], PageLengths, Totals) : ResourceResponse(c, status, body)

SpecList == Init /\ [][NextList]_vars

(***************************************************************************)
(* SpecExp: one call of getExperiment on a new client; the server answers  *)
(* with any of the payloads.                                               *)
(***************************************************************************)
NextExp ==
    \E c \in {"c1"} :
        \/ \E user \in BOOLEAN : calls[c].pc = "idle" /\ Call(c, "getExperiment", user, <<>>, RequiredParams("getExperiment"))
        \/ \E status \in {200, 401} : LoginResponse(c, status)
        \/ \E status \in {200, 401, 500} :
              \E body \in {NullBody} \cup {Payload(PlainBody, data) : data \in ExperimentPayloads} :
                 ResourceResponse(c, status, body)

SpecExp == Init /\ [][NextExp]_vars

(***************************************************************************)
(* SpecCsv: one call of getMetrics for one key on a new client; the export *)
(* URL answers with a CSV of a header line and one row, whose cells are    *)
(* any text of up to MaxCell characters of the alphabet or one of the      *)
(* words.                                                                  *)
(***************************************************************************)
Alphabet == {" ", "3", "5", ".", "-", "a"}
RECURSIVE Texts(_)
Texts(n) ==
    IF n = 0 THEN {<<>>}
    ELSE Texts(n - 1) \cup {Append(t, ch) : t \in {u \in Texts(n - 1) : Len(u) = n - 1}, ch \in Alphabet}
Cells ==
    Texts(MaxCell) \cup {NullWord, UndefinedWord, <<" ">> \o NullWord, <<"N", "U", "L", "L">>,
                         <<"a", "b", "c">>, <<" ", "3", ".", "5", " ">>, <<"+", "3">>}
CellDocs ==
    {<<<<<<"v">>>>, <<cell>>>> : cell \in Cells}
        \cup {<<<<<<"v">>, <<"w">>>>, <<cell>>>> : cell \in {<<>>, <<"3">>}}
        \cup {<<<<<<" ", "v">>>>, <<cell, <<"5">>>>>> : cell \in {<<>>, <<"3">>}}

NextCsv ==
    \E c \in {"c1"} :
        \/ calls[c].pc = "idle" /\ Call(c, "getMetrics", FALSE, <<"loss">>, RequiredParams("getMetrics"))
        \/ \E status \in {200, 401} : LoginResponse(c, status)
        \/ \E status \in {200, 401, 500} :
              \E body \in GoodBodies(calls[c], {0}, {0}) : ResourceResponse(c, status, body)
        \/ \E status \in {200, 500}, csv \in CellDocs : CsvResponse(c, status, csv)

SpecCsv == Init /\ [][NextCsv]_vars

(***************************************************************************)
(* SpecTool: a tool is invoked once on a new client, with any of the       *)
(* required parameters of its accessor omitted from the input.             *)
(***************************************************************************)
NextTool ==
    \E c \in {"c1"} :
        \/ \E op \in Ops : \E user \in UserArgs(op), given \in SUBSET RequiredParams(op) :
              \E keys \in KeysOf(op, {<<"loss">>}) :
                 calls[c].pc = "idle" /\ Call(c, op, user, keys, given)
        \/ \E status \in LoginStatuses : LoginResponse(c, status)
        \/ \E status \in {200, 401, 500} :
              \E body \in GoodBodies(calls[c], 0..1, {0, 2}) : ResourceResponse(c, status, body)
        \/ \E status \in {200, 500} : CsvResponse(c, status, Doc(2))

SpecTool == Init /\ [][NextTool]_vars

(***************************************************************************)
(* The tool layer: SwanLabTool.invoke and createSwanLabApi.  The host      *)
(* invokes tools concurrently; every invocation that finds an API key      *)
(* constructs an instance and calls one accessor on it.  The variables     *)
(* loginInfo, cookie, baseURL and isLoggingIn are the fields of the        *)
(* instance `this`, whose code is running; the fields of the other         *)
(* instances are kept in apis.                                             *)
(***************************************************************************)
\* variant: createSwanLabApi hands out one instance to every invocation
ApiShared(made) == 1
\* createSwanLabApi: return { api: new SwanLabApi(apiKey) }; made is the
\* number of instances constructed so far, the result the new instance
ApiFor(made) == made + 1

\* the fields of the instance whose code is running
Loaded ==
    [loginInfo |-> loginInfo, cookie |-> cookie, baseURL |-> baseURL, isLoggingIn |-> isLoggingIn]
\* the fields of instance n
FieldsOf(n) == IF n = this THEN Loaded ELSE apis[n]

\* The host calls invoke and the secret storage has answered: without a key
\* invoke shows the error message and waits for the user; with a key
\* createSwanLabApi returns an instance.
Invoke(c, key) ==
    /\ tools[c].pc = "idle"
    /\ IF ~key
       THEN /\ tools' = [tools EXCEPT ![c].pc = "prompt"]
            /\ UNCHANGED apis
       ELSE LET n == ApiFor(Len(apis))
            IN /\ tools' = [tools EXCEPT ![c] = [pc |-> "ready", api |-> n]]
               /\ apis' = IF n > Len(apis) THEN Append(apis, NewApi) ELSE apis
    /\ UNCHANGED <<loginInfo, cookie, baseURL, isLoggingIn, calls, nCalls, n401, loginsSent,
                   sidsIssued, this>>

\* The user has answered the error message (and the command it offers has
\* run): invoke returns errorResult.
PromptAnswered(c) ==
    /\ tools[c].pc = "prompt"
    /\ tools' = [tools EXCEPT ![c].pc = "returned"]
    /\ UNCHANGED <<loginInfo, cookie, baseURL, isLoggingIn, calls, nCalls, n401, loginsSent,
                   sidsIssued, apis, this>>

\* The next code to run belongs to the instance of invocation c: `this` is
\* that instance from here on.
Resume(c) ==
    /\ tools[c].pc = "ready"
    /\ calls[c].pc /= "done"
    /\ this /= tools[c].api
    /\ LET n == tools[c].api
       IN /\ loginInfo' = apis[n].loginInfo
          /\ cookie' = apis[n].cookie
          /\ baseURL' = apis[n].baseURL
          /\ isLoggingIn' = apis[n].isLoggingIn
          /\ apis' = IF this = 0 THEN apis ELSE [apis EXCEPT ![this] = Loaded]
          /\ this' = n
    /\ UNCHANGED <<calls, nCalls, n401, loginsSent, sidsIssued, tools>>

\* the code of invocation c's instance is running
Running(c) == tools[c].pc = "ready" /\ this = tools[c].api

\* variant: invoke without its catch
ToolOutcomeUncaught(call) ==
    IF call.result.ok THEN [kind |-> "result", text |-> call.result.value]
    ELSE [kind |-> "raised", text |-> call.result.error.msg]
\* try { return this.formatResult(await this.execute(api, options.input)) }
\* catch (error) { return a text part of this.formatError(error) }
ToolOutcome(call) ==
    IF call.result.ok THEN [kind |-> "result", text |-> call.result.value]
    ELSE [kind |-> "errorText", text |-> <<"Error">> \o call.result.error.msg]
\* errorResult of createSwanLabApi
NotConfigured ==
    [kind |-> "notConfigured",
     text |-> <<"message.apiKeyNotConfigured", "message.pleaseSetApiKey">>]

\* invoke has returned
ToolReturned(c) ==
    tools[c].pc = "returned" \/ (tools[c].pc = "ready" /\ calls[c].pc = "done")
\* what invoke returned
ToolResult(c) == IF tools[c].pc = "returned" THEN NotConfigured ELSE ToolOutcome(calls[c])

(***************************************************************************)
(* SpecHost: the host invokes two tools concurrently.                      *)
(***************************************************************************)
HostOps == {"listWorkspaces", "deleteProject", "getMetrics"}

NextHost ==
    \E c \in Callers :
        \/ \E key \in BOOLEAN : Invoke(c, key)
        \/ PromptAnswered(c)
        \/ Resume(c)
        \/ \E op \in HostOps : \E user \in UserArgs(op) :
              \E keys \in KeysOf(op, {<<"loss">>}) :
                 /\ Running(c) /\ calls[c].pc = "idle"
                 /\ Call(c, op, user, keys, RequiredParams(op))
        \/ \E status \in {200, 401} : Running(c) /\ LoginResponse(c, status)
        \/ \E status \in {200, 401, 500} :
              \E body \in GoodBodies(calls[c], {0}, {0}) :
                 Running(c) /\ ResourceResponse(c, status, body)
        \/ \E status \in {200, 500} : Running(c) /\ CsvResponse(c, status, Doc(2))

SpecHost == Init /\ [][NextHost]_vars

(***************************************************************************)
(* Properties.                                                             *)
(***************************************************************************)
ListDone(c) == calls[c].op \in ListOps /\ calls[c].pc = "done" /\ calls[c].result.ok

\* the items of pages 1..k of the given lengths, page after page
RECURSIVE ItemsOfPages(_, _)
ItemsOfPages(lengths, k) ==
    IF k = 0 THEN <<>> ELSE ItemsOfPages(lengths, k - 1) \o PageItems(k, lengths[k])

\* C1: a request that received 401 and whose re-login succeeded is sent again
\* exactly once, and the response to that replay is what the accessor gets:
\* no call replays a request twice or logs in again after its replay.
C1_ReplayedOnceAndReturned ==
    \A c \in Callers :
        calls[c].replays >= 1 => (calls[c].replays = 1 /\ calls[c].pc /= "relogin")

\* C2: one accessor call performs at most one re-login for a request; a 401
\* answer to the replayed request ends the call.
C2_AtMostOneRelogin ==
    \A c \in Callers : calls[c].relogins <= 1

\* C3: when the re-login started for a 401 fails, the interceptor rejects with
\* the error of the original 401 response (not the login's error), the request
\* is not sent again, and every accessor but getMetrics fails with that error.
C3_ReloginFailureSurfacesOriginal ==
    \A c \in Callers :
        calls[c].reloginThrew =>
            /\ calls[c].thrown = handleAxiosError(AxiosError(401))
            /\ calls[c].replays = calls[c].relogins - 1
            /\ calls[c].pc = "done"
            /\ calls[c].op /= "getMetrics" =>
                  /\ ~calls[c].result.ok
                  /\ calls[c].result.error =
                        AccessorCatch(calls[c].op, handleAxiosError(AxiosError(401)))
C3_Witness ==
    \E c \in Callers : calls[c].reloginThrew /\ calls[c].op = "listProjects"

\* C4: at most one login request is in flight at any time.
C4_OneLoginInFlight ==
    Cardinality({c \in Callers : calls[c].req.kind = "login"}) <= 1
C4_Witness ==
    \E c, d \in Callers : calls[c].req.kind = "login" /\ calls[d].pc = "wait"

\* C5: a login() that waits for a login in flight returns only after that
\* login has resolved.
C5_WaitersObserveOutcome ==
    \A c \in Callers : ~calls[c].early

\* C6: an accessor that finds no session calls login() before its try block:
\* a login request is sent (by this call, or it is already in flight and the
\* call waits) before the call sends any resource request, and when the
\* call's login() throws the call sends no resource request and fails with
\* the login's error.
C6_LazyLoginFirst ==
    \A c \in Callers :
        calls[c].noSession =>
            /\ calls[c].sentLogin /= calls[c].waited
            /\ loginsSent > 0
            /\ calls[c].pc \in {"login", "wait"} => calls[c].resSent = 0
            /\ calls[c].loginThrew =>
                  /\ calls[c].resSent = 0
                  /\ calls[c].pc = "done"
                  /\ ~calls[c].result.ok
                  /\ \E status \in LoginStatuses \ {200} :
                        calls[c].result.error = LoginError(status)
C6_Witness ==
    \E c \in Callers : calls[c].noSession /\ calls[c].loginThrew /\ calls[c].op = "getMetrics"

\* C7: a request sent through axiosInstance is sent only while a session is
\* stored and carries the id of a session a login has established.
C7_RequestsCarrySession ==
    \A c \in Callers :
        calls[c].req.kind = "res" =>
            (loginInfo /= Null /\ calls[c].req.sid \in 1..sidsIssued)

\* C8: while a session is stored, a login request is sent only in a step in
\* which a request sent through axiosInstance receives 401.
C8_SessionReused ==
    [][(loginInfo /= Null /\ loginsSent' > loginsSent) => n401' = n401 + 1]_vars
C8_Witness ==
    \E c \in Callers :
        ~calls[c].noSession /\ calls[c].resSent > 0 /\ loginsSent = 1 /\ n401 = 0

\* C9 as stated: a completed list call returns the pages' items in page order
\* and as many items as the server's declared total.
C9_LengthEqualsTotal ==
    \A c \in Callers :
        ListDone(c) =>
            /\ calls[c].result.value = ItemsOfPages(calls[c].pages, Len(calls[c].pages))
            /\ Len(calls[c].result.value) = calls[c].total
\* C9 amended: a completed list call returns the pages' items in page order,
\* and at least as many items as the last page declared unless that page was
\* empty.
C9_PagesInOrder ==
    \A c \in Callers :
        ListDone(c) =>
            /\ calls[c].pages /= <<>>
            /\ calls[c].result.value = ItemsOfPages(calls[c].pages, Len(calls[c].pages))
            /\ calls[c].pages[Len(calls[c].pages)] > 0
                  => Len(calls[c].result.value) >= calls[c].total
C9_Witness ==
    \E c \in Callers :
        ListDone(c) /\ calls[c].pages = <<Size, 1>> /\ calls[c].total = Size + 1

\* a list call has received a page and has asked for the next one
AskedNextPage(c) ==
    calls[c].op \in ListOps /\ calls[c].pc \in {"req", "relogin"} /\ calls[c].pages /= <<>>

\* C10 as stated: no further page is requested after a page of fewer than
\* `size` items, nor once the cumulative count has reached the total.
C10_StopsAfterShortPage ==
    \A c \in Callers :
        AskedNextPage(c) =>
            /\ calls[c].pages[Len(calls[c].pages)] >= Size
            /\ Len(calls[c].acc) < calls[c].total
\* C10 amended: no further page is requested after an empty page, nor once the
\* cumulative count has reached the total.
C10_StopsAfterEmptyPage ==
    \A c \in Callers :
        AskedNextPage(c) =>
            /\ calls[c].pages[Len(calls[c].pages)] > 0
            /\ Len(calls[c].acc) < calls[c].total
            /\ calls[c].step = Len(calls[c].pages) + 1
C10_Witness ==
    \E c \in Callers :
        AskedNextPage(c) /\ calls[c].pages = <<Size>> /\ calls[c].total = 2 * Size

\* a step of caller c in which the answer to its request is not a 401
OtherAnswer(c) ==
    calls[c].pc = "req" /\ calls'[c] /= calls[c] /\ n401' = n401
\* ... and the answer is a failure the interceptor rejects with
FailedAnswer(c) == OtherAnswer(c) /\ calls'[c].thrown /= calls[c].thrown

\* C11 as stated: a request that fails with anything but 401 is not sent
\* again, starts no login, and the failure is raised to the caller of every
\* accessor.
C11_OtherFailuresRaised ==
    [][\A c \in Callers :
          /\ OtherAnswer(c) =>
                /\ loginsSent' = loginsSent
                /\ calls'[c].pc /= "relogin"
                /\ calls'[c].replays <= calls[c].replays
          /\ FailedAnswer(c) =>
                /\ calls'[c].pc = "done"
                /\ ~calls'[c].result.ok]_vars
\* C11 amended: a request that fails with anything but 401 is not sent again
\* and starts no login; every accessor but getMetrics ends with the failure
\* raised to its caller and sends nothing more.
C11_OtherFailuresTerminal ==
    [][\A c \in Callers :
          /\ OtherAnswer(c) =>
                /\ loginsSent' = loginsSent
                /\ calls'[c].pc /= "relogin"
                /\ calls'[c].replays <= calls[c].replays
          /\ (FailedAnswer(c) /\ calls[c].op /= "getMetrics") =>
                /\ calls'[c].pc = "done"
                /\ calls'[c].resSent = calls[c].resSent
                /\ ~calls'[c].result.ok
                /\ calls'[c].result.error = AccessorCatch(calls[c].op, calls'[c].thrown)]_vars
C11_Witness ==
    \E c \in Callers :
        /\ calls[c].op = "deleteProject" /\ calls[c].pc = "done"
        /\ calls[c].thrown = handleAxiosError(AxiosError(403))
        /\ calls[c].resSent = 1 /\ loginsSent = 1

\* the bodies of the 2xx answers to an envelope-wrapped operation
EnvelopeBodies ==
    {Body(d, e, code, i, 0, 0, FALSE) : d \in BOOLEAN, e \in BOOLEAN, code \in Codes, i \in BOOLEAN}

MetricKeys(acc) == {acc[i][1] : i \in 1..Len(acc)}
\* the key the getMetrics call of c is working on
CurrentKey(c) == uniqueKeys(calls[c].keys)[calls[c].step]
\* the key is given up in this step: the loop goes on without an entry for it
KeySkipped(c) ==
    /\ calls'[c].acc = calls[c].acc
    /\ CurrentKey(c) \notin MetricKeys(calls'[c].acc)
    /\ calls'[c].step = calls[c].step + 1
    /\ calls'[c].pc \in {"req", "done"}

\* C13: getMetrics raises no error once its login() has returned; its result
\* has entries for requested keys only, one per key; a key whose descriptor
\* request fails (non-2xx answer, failed re-login, body without url) or whose
\* CSV retrieval fails gets no entry and the loop goes on; a key whose CSV is
\* retrieved gets an entry; entries are never removed.
C13_MetricsPerKey ==
    /\ [](\A c \in Callers :
            calls[c].op = "getMetrics" =>
                /\ MetricKeys(calls[c].acc) \subseteq
                      {uniqueKeys(calls[c].keys)[i] : i \in 1..(calls[c].step - 1)}
                /\ \A i, j \in 1..Len(calls[c].acc) :
                      calls[c].acc[i][1] = calls[c].acc[j][1] => i = j
                /\ (calls[c].pc = "done" /\ ~calls[c].loginThrew) =>
                      /\ calls[c].result.ok
                      /\ calls[c].result.value = calls[c].acc
                      /\ calls[c].step = Len(uniqueKeys(calls[c].keys)) + 1)
    /\ [][\A c \in Callers :
            (calls[c].op = "getMetrics" /\ calls[c].pc \in {"req", "relogin", "csv"}) =>
                /\ \A status \in Statuses \ {200} :
                      (ResourceResponse(c, status, Body(TRUE, FALSE, 200, TRUE, 0, 0, TRUE))
                          /\ calls'[c].pc /= "relogin") => KeySkipped(c)
                /\ \A body \in Bodies(calls[c], {0}, {0}) :
                      (ResourceResponse(c, 200, body) /\ ~(body.data /\ ~body.errmsg /\ body.url))
                          => KeySkipped(c)
                /\ \A status \in LoginStatuses \ {200} :
                      (calls[c].pc = "relogin" /\ LoginResponse(c, status)
                          /\ calls'[c].pc /= "relogin") => KeySkipped(c)
                /\ \A status \in {200, 500}, csv \in Docs :
                      CsvResponse(c, status, csv) =>
                          IF status = 200 /\ Len(csv) >= 2
                          THEN /\ CurrentKey(c) \in MetricKeys(calls'[c].acc)
                               /\ SubSeq(calls'[c].acc, 1, Len(calls[c].acc)) = calls[c].acc
                          ELSE KeySkipped(c)]_vars
\* three keys requested, the descriptor request of the second one failed
C13_Witness ==
    \E c \in Callers :
        /\ calls[c].op = "getMetrics" /\ calls[c].pc = "done" /\ calls[c].result.ok
        /\ calls[c].keys = <<"loss", "acc", "lr">>
        /\ MetricKeys(calls[c].result.value) = {"loss", "lr"}
        /\ calls[c].thrown = handleAxiosError(AxiosError(500))

\* the call of c ends in this step with an error and without a value, and
\* sends nothing
CallFails(c) ==
    /\ calls'[c].pc = "done"
    /\ ~calls'[c].result.ok
    /\ calls'[c].result.value = <<>>
    /\ calls'[c].resSent = calls[c].resSent

\* C14: getSummary sends its requests in the order 1 (project GET),
\* 2 (experiment GET), 3 (summaries POST): it moves from one request to the
\* next only in a step in which the current one is answered 2xx with a
\* non-empty body, it returns a summary only after the third, and a failed
\* request (other than a 401 that is replayed) or an empty body ends the call
\* with an error, no value and no further request.
C14_SummaryInOrder ==
    /\ [](\A c \in Callers :
            calls[c].op = "getSummary" =>
                /\ calls[c].pc \in {"req", "relogin"} => calls[c].step \in 1..3
                /\ (calls[c].pc \in {"req", "relogin"} /\ calls[c].step < 3)
                        => calls[c].requestData = {}
                /\ (calls[c].pc = "done" /\ calls[c].result.ok)
                        => (calls[c].step = 3 /\ calls[c].resSent >= 3)
                /\ (calls[c].pc = "done" /\ ~calls[c].result.ok)
                        => calls[c].result.value = <<>>)
    /\ [][\A c \in Callers :
            (calls[c].op = "getSummary" /\ calls[c].pc \in {"req", "relogin"}) =>
                /\ calls'[c].step /= calls[c].step =>
                      /\ calls'[c].step = calls[c].step + 1
                      /\ \E body \in Bodies(calls[c], {0}, {0}) :
                            body.data /\ ResourceResponse(c, 200, body)
                /\ \A status \in Statuses \ {200} :
                      (ResourceResponse(c, status, NullBody) /\ calls'[c].pc /= "relogin")
                          => CallFails(c)
                /\ ResourceResponse(c, 200, NullBody) => CallFails(c)
                /\ \A status \in LoginStatuses \ {200} :
                      (calls[c].pc = "relogin" /\ LoginResponse(c, status)
                          /\ calls'[c].pc /= "relogin") => CallFails(c)]_vars
C14_Witness ==
    \E c \in Callers :
        /\ calls[c].op = "getSummary" /\ calls[c].pc = "done" /\ ~calls[c].result.ok
        /\ calls[c].step = 2 /\ calls[c].resSent = 2
        /\ calls[c].thrown = handleAxiosError(AxiosError(500))

\* the names of the fields of requestData
FieldNames(requestData) == {f[1] : f \in requestData}

\* C15: the body of the summaries POST always has experimentId (the expId
\* asked for) and projectId (the cuid of the project lookup, "" when it has
\* none); it has rootExperimentId and rootProjectId, with the values the
\* experiment lookup reported, exactly when that lookup reported both rootExpId
\* and rootProId non-empty, and neither of them otherwise; it stays the same
\* while the POST is in flight or replayed.
C15_RootIdsWhenClone ==
    [][\A c \in Callers :
          (calls[c].op = "getSummary" /\ calls[c].pc \in {"req", "relogin"}) =>
              /\ \A cuid \in Cuids :
                    (calls[c].step = 1
                        /\ ResourceResponse(c, 200, Payload(PlainBody, [cuid |-> cuid])))
                    => calls'[c].projectCuid = (IF cuid = Absent THEN "" ELSE cuid)
              /\ \A e \in RootExpIds, p \in RootProIds :
                    (calls[c].step = 2
                        /\ ResourceResponse(c, 200,
                              Payload(PlainBody, [rootExpId |-> e, rootProId |-> p])))
                    => LET both == e \notin {Absent, ""} /\ p \notin {Absent, ""}
                           rd == calls'[c].requestData
                       IN /\ calls'[c].pc = "req" /\ calls'[c].step = 3
                          /\ <<"experimentId", ExpId>> \in rd
                          /\ <<"projectId", calls[c].projectCuid>> \in rd
                          /\ both => /\ <<"rootExperimentId", e>> \in rd
                                     /\ <<"rootProjectId", p>> \in rd
                                     /\ Cardinality(rd) = 4
                          /\ ~both => FieldNames(rd) = {"experimentId", "projectId"}
              /\ (calls[c].step = 3 /\ calls'[c].op = "getSummary")
                    => calls'[c].requestData = calls[c].requestData]_vars
C15_Witness ==
    \E c \in Callers :
        /\ calls[c].op = "getSummary" /\ calls[c].pc = "req" /\ calls[c].step = 3
        /\ calls[c].requestData = {<<"experimentId", ExpId>>, <<"projectId", "p1">>,
                                   <<"rootExperimentId", "re1">>, <<"rootProjectId", "rp1">>}

\* getExperiment has returned its record
ExperimentDone(c) ==
    calls[c].op = "getExperiment" /\ calls[c].pc = "done" /\ calls[c].result.ok

C17_CondaAndListDefaults ==
    \A c \in Callers :
        ExperimentDone(c) =>
            LET data == calls[c].data
                record == calls[c].result.value[1]
            IN /\ record["profile.conda"] =
                    (IF Get(data, "profile.conda") \in {Absent, JsNull} THEN JsNull
                     ELSE Get(data, "profile.conda"))
               /\ \A path \in ListFields :
                    record[path] =
                        (IF data[path] \in {EmptyList, "<list>"} THEN data[path] ELSE EmptyList)
C17_Witness ==
    \E c \in Callers :
        /\ ExperimentDone(c)
        /\ calls[c].data["colors"] = "abc"
        /\ calls[c].result.value[1]["colors"] = EmptyList
        /\ calls[c].result.value[1]["labels"] = "<list>"
        /\ calls[c].result.value[1]["profile.conda"] = "abc"

\* the text without the spaces around it
Stripped(text) ==
    LET inked == {i \in 1..Len(text) : text[i] /= " "}
    IN IF inked = {} THEN <<>>
       ELSE SubSeq(text, CHOOSE i \in inked : \A k \in inked : i <= k,
                         CHOOSE i \in inked : \A k \in inked : k <= i)
AllDigits(text) == \A i \in 1..Len(text) : text[i] \in DigitChars
\* the ways to read the text as sign, digits, and digits after a dot
DecimalReadings(text) ==
    {r \in [sign : {<<>>, <<"-">>, <<"+">>}, whole : {SubSeq(text, a, b) : a, b \in 1..Len(text)} \cup {<<>>},
            dot : {<<>>, <<".">>}, frac : {SubSeq(text, a, b) : a, b \in 1..Len(text)} \cup {<<>>}] :
        /\ text = r.sign \o r.whole \o r.dot \o r.frac
        /\ AllDigits(r.whole) /\ AllDigits(r.frac)
        /\ Len(r.whole) + Len(r.frac) >= 1
        /\ r.dot = <<>> => r.frac = <<>>}

\* C18: every cell of a data row is coerced after trimming: the empty text,
\* "null" and "undefined" give null; a decimal numeral gives its number; any
\* other text stays that text.
C18_CellCoercion ==
    \A c \in Callers :
        (calls[c].op = "getMetrics" /\ Len(calls[c].csv) >= 2) =>
            /\ calls[c].acc /= <<>>
            /\ LET csv == calls[c].csv
                   dataRows == calls[c].acc[Len(calls[c].acc)][2]
               IN /\ Len(dataRows) = Len(csv) - 1
                  /\ \A i \in 1..Len(dataRows) :
                       \A j \in 1..Len(csv[1]) :
                          j <= Len(csv[i + 1]) =>
                             LET cell == Stripped(csv[i + 1][j])
                                 v == dataRows[i][Stripped(csv[1][j])]
                             IN IF cell \in {<<>>, NullWord, UndefinedWord}
                                THEN v = JsCell("null", FALSE, 0, 0, <<>>)
                                ELSE IF DecimalReadings(cell) /= {}
                                THEN \E r \in DecimalReadings(cell) :
                                        v = JsCell("number", r.sign = <<"-">>,
                                                   DigitsValue(r.whole \o r.frac), Len(r.frac), <<>>)
                                ELSE v = JsCell("string", FALSE, 0, 0, cell)
\* the row " 3.5 " of the CSV became the number 3.5
C18_Witness ==
    \E c \in Callers :
        /\ calls[c].op = "getMetrics" /\ calls[c].pc = "done"
        /\ calls[c].csv = <<<<<<"v">>>>, <<<<" ", "3", ".", "5", " ">>>>>>
        /\ calls[c].result.value[1][2][1][<<"v">>] = JsCell("number", FALSE, 35, 1, <<>>)

(***************************************************************************)
(* C19  A call that omits a required parameter (project, expId) fails with *)
(* a validation error before any network request, login or resource, is    *)
(* sent: it is never found waiting for a response, and once it has begun   *)
(* it has failed without having sent a login request or a request of its   *)
(* own.                                                                    *)
(***************************************************************************)
ParamOmitted(c) == calls[c].op /= "none" /\ calls[c].given /= RequiredParams(calls[c].op)

C19_OmittedParamNoRequest ==
    \A c \in Callers :
        ParamOmitted(c) =>
            /\ calls[c].pc = "done"
            /\ ~calls[c].result.ok
            /\ ~calls[c].sentLogin
            /\ calls[c].resSent = 0

(***************************************************************************)
(* C20  login() fails with an authentication error when the login endpoint *)
(* answers 401 or 403 and with a transport error for any other non-2xx     *)
(* status or when there is no response; a login() that fails stores no     *)
(* session.  The kind of an error is read from its message, which keeps    *)
(* the text handleAxiosError chose for the response under the prefix the   *)
(* second handleAxiosError adds.  The error is observed where login() was  *)
(* called by an accessor, which lets it through to its caller.             *)
(***************************************************************************)
AuthenticationTexts ==
    {"Authentication failed. Please check your API key.", "You need to be verified first"}
TransportTexts == {"Network error"} \cup {ToString(status) : status \in LoginStatuses \ {0}}
IsAuthenticationError(error) == \E i \in DOMAIN error.msg : error.msg[i] \in AuthenticationTexts
IsTransportError(error) ==
    /\ ~IsAuthenticationError(error)
    /\ \E i \in DOMAIN error.msg : error.msg[i] \in TransportTexts

C20_LoginFailureKinds ==
    [][\A c \in Callers : \A status \in LoginStatuses \ {200} :
          /\ (calls[c].pc = "login" /\ LoginResponse(c, status)) =>
                /\ calls'[c].pc = "done" /\ ~calls'[c].result.ok
                /\ status \in {401, 403} => IsAuthenticationError(calls'[c].result.error)
                /\ status \notin {401, 403} \cup (200..299)
                      => IsTransportError(calls'[c].result.error)
                /\ loginInfo' = Null /\ cookie' = 0 /\ ~baseURL'
          /\ (calls[c].pc = "relogin" /\ LoginResponse(c, status)) =>
                /\ loginInfo' = loginInfo /\ cookie' = cookie /\ baseURL' = baseURL
                /\ sidsIssued' = sidsIssued
      ]_vars
\* an accessor's login() was answered 403: the call failed with the
\* unverified-account error and the client has no session
C20_Witness ==
    \E c \in Callers :
        /\ calls[c].pc = "done" /\ calls[c].loginThrew
        /\ \E i \in DOMAIN calls[c].result.error.msg :
              calls[c].result.error.msg[i] = "You need to be verified first"
        /\ loginInfo = Null

(***************************************************************************)
(* C21  getMetrics sends the export-descriptor request once per distinct   *)
(* key: the keys it works through are the requested keys without           *)
(* duplicates, in the order of their first occurrence; the loop sends a    *)
(* request of its own only when it moves to the next key (the one other    *)
(* send is the interceptor's replay of the current key's request after a   *)
(* re-login); the CSV retrieval of a key follows that key's descriptor     *)
(* response, and the next key's request is sent only by the step that ends *)
(* the current key.                                                        *)
(***************************************************************************)
FirstIndex(seq, x) ==
    CHOOSE i \in 1..Len(seq) : seq[i] = x /\ \A j \in 1..(i - 1) : seq[j] /= x
\* the step is a step of the call of c that was already running
SameCall(c) == nCalls' = nCalls /\ calls'[c] /= calls[c]

C21_KeysOnceInOrder ==
    /\ [](\A c \in Callers :
            calls[c].op = "getMetrics" =>
                LET keys == calls[c].keys
                    u == uniqueKeys(keys)
                    acc == calls[c].acc
                IN /\ \A i, j \in 1..Len(u) : u[i] = u[j] => i = j
                   /\ {u[i] : i \in 1..Len(u)} = {keys[i] : i \in 1..Len(keys)}
                   /\ \A i, j \in 1..Len(u) :
                         i < j => FirstIndex(keys, u[i]) < FirstIndex(keys, u[j])
                   /\ calls[c].pc \in {"req", "relogin", "csv"} => calls[c].step \in 1..Len(u)
                   /\ \A i, j \in 1..Len(acc) :
                         i < j => FirstIndex(u, acc[i][1]) < FirstIndex(u, acc[j][1]))
    /\ [][\A c \in Callers :
            (calls[c].op = "getMetrics" /\ SameCall(c)) =>
                LET old == calls[c]
                    new == calls'[c]
                IN /\ new.step \in {old.step, old.step + 1}
                   /\ new.resSent \in {old.resSent, old.resSent + 1}
                   /\ new.resSent = old.resSent + 1 =>
                         /\ new.pc = "req"
                         /\ \/ new.step = old.step + 1 /\ new.replays = 0
                            \/ /\ new.step = old.step /\ old.pc = "relogin"
                               /\ new.replays = old.replays + 1
                   /\ (new.step = old.step + 1 /\ new.pc = "req") => new.resSent = old.resSent + 1
                   /\ (new.pc = "csv" /\ old.pc /= "csv") =>
                         old.pc = "req" /\ new.step = old.step /\ new.resSent = old.resSent
                   /\ old.pc = "csv" => new.step = old.step + 1 /\ new.pc \in {"req", "done"}
                   /\ (new.step = old.step + 1 /\ old.step >= 1) =>
                         old.pc \in {"req", "relogin", "csv"}]_vars
\* the key was requested twice and fetched once
C21_Witness ==
    \E c \in Callers :
        /\ calls[c].op = "getMetrics" /\ calls[c].pc = "done"
        /\ calls[c].keys = <<"loss", "loss">>
        /\ calls[c].resSent = 1
        /\ MetricKeys(calls[c].result.value) = {"loss"}

(***************************************************************************)
(* C22  In getMetrics, when the export descriptor of a key is empty, has   *)
(* an errmsg or has no url, no CSV retrieval is sent for that key, the key *)
(* gets no entry in the result, and the loop goes on with the next key (or *)
(* returns after the last one).  An entry is added only for the key whose  *)
(* CSV was just retrieved, so a key passed over stays absent.              *)
(***************************************************************************)
C22_UnusableDescriptorSkipped ==
    [][\A c \in Callers :
          (calls[c].op = "getMetrics" /\ SameCall(c)) =>
              /\ \A body \in Bodies(calls[c], {0}, {0}) :
                    (calls[c].pc = "req" /\ ResourceResponse(c, 200, body)) =>
                        IF ~body.data \/ body.errmsg \/ ~body.url
                        THEN /\ calls'[c].csvSent = calls[c].csvSent
                             /\ calls'[c].pc \in {"req", "done"}
                             /\ calls'[c].acc = calls[c].acc
                             /\ calls'[c].step = calls[c].step + 1
                             /\ calls'[c].pc = "req" <=>
                                   calls[c].step < Len(uniqueKeys(calls[c].keys))
                             /\ calls'[c].pc = "done" =>
                                   /\ calls'[c].result.ok
                                   /\ CurrentKey(c) \notin MetricKeys(calls'[c].result.value)
                        ELSE /\ calls'[c].pc = "csv"
                             /\ calls'[c].csvSent = calls[c].csvSent + 1
              /\ calls'[c].acc /= calls[c].acc =>
                    /\ calls[c].pc = "csv"
                    /\ Len(calls'[c].acc) = Len(calls[c].acc) + 1
                    /\ SubSeq(calls'[c].acc, 1, Len(calls[c].acc)) = calls[c].acc
                    /\ calls'[c].acc[Len(calls'[c].acc)][1] = CurrentKey(c)
      ]_vars
\* two keys requested: every request was answered 2xx, the descriptor of the
\* first key was unusable, the second key has its entry
C22_Witness ==
    \E c \in Callers :
        /\ calls[c].op = "getMetrics" /\ calls[c].pc = "done" /\ calls[c].result.ok
        /\ calls[c].keys = <<"loss", "acc">>
        /\ calls[c].resSent = 2 /\ calls[c].csvSent = 1
        /\ calls[c].thrown = Error(<<>>)
        /\ MetricKeys(calls[c].result.value) = {"acc"}

(***************************************************************************)
(* C23  For every CSV of at least two lines, rows with fewer cells than    *)
(* the header line included, getMetrics stores one row per line after the  *)
(* header line, in line order; each row is defined on exactly the column   *)
(* names of the header line, and each of its values is a number, null or a *)
(* string.                                                                 *)
(***************************************************************************)
C23_RowsTyped ==
    \A c \in Callers :
        (calls[c].op = "getMetrics" /\ Len(calls[c].csv) >= 2) =>
            /\ calls[c].acc /= <<>>
            /\ LET csv == calls[c].csv
                   dataRows == calls[c].acc[Len(calls[c].acc)][2]
               IN /\ Len(dataRows) = Len(csv) - 1
                  /\ \A i \in 1..Len(dataRows) :
                        /\ DOMAIN dataRows[i] = {Stripped(csv[1][j]) : j \in 1..Len(csv[1])}
                        /\ \A h \in DOMAIN dataRows[i] :
                              dataRows[i][h].t \in {"number", "null", "string"}

(***************************************************************************)
(* C24  A request sent with a session that is answered 401 while a login   *)
(* is in flight on the client (isLoggingIn set by another call's login())  *)
(* is not recovered: the interceptor starts no login and sends no replay,  *)
(* and rejects with the authentication error, with which every accessor    *)
(* but getMetrics fails at once (getMetrics gives the key up).  The        *)
(* outcome of the login in flight does not touch the settled call.         *)
(***************************************************************************)
C24_NoRecoveryDuringLogin ==
    [][\A c \in Callers :
          /\ (calls[c].pc = "req" /\ calls[c].req.sid /= 0 /\ isLoggingIn
                 /\ ResourceResponse(c, 401, NullBody)) =>
                /\ loginsSent' = loginsSent
                /\ calls'[c].pc /= "relogin"
                /\ calls'[c].req.kind /= "login"
                /\ calls'[c].thrown = handleAxiosError(AxiosError(401))
                /\ calls[c].op /= "getMetrics" =>
                      /\ CallFails(c)
                      /\ calls'[c].relogins = calls[c].relogins
                      /\ calls'[c].replays = calls[c].replays
                      /\ IsAuthenticationError(calls'[c].result.error)
                /\ calls[c].op = "getMetrics" => KeySkipped(c)
          /\ \A d \in Callers \ {c}, status \in LoginStatuses :
                (calls[c].pc = "done" /\ LoginResponse(d, status)) => calls'[c] = calls[c]
      ]_vars
\* one call is in its re-login while the other call's request, sent with the
\* session, was answered 401 and the call has failed without a re-login
C24_Witness ==
    \E c, d \in Callers :
        /\ c /= d
        /\ calls[d].pc = "relogin"
        /\ calls[c].op = "listWorkspaces" /\ calls[c].pc = "done" /\ ~calls[c].result.ok
        /\ ~calls[c].noSession
        /\ calls[c].relogins = 0 /\ calls[c].replays = 0
        /\ calls[c].thrown = handleAxiosError(AxiosError(401))

(***************************************************************************)
(* C25  isLoggingIn is true exactly when a login request sent by login()   *)
(* is in flight: it is set when the request is sent and reset when the     *)
(* response has been handled, whatever the outcome, so that a call that    *)
(* finds no session after a failed login sends a login request of its own. *)
(***************************************************************************)
LoginInFlight == \E c \in Callers : calls[c].req.kind = "login"

C25_FlagIffLoginInFlight ==
    /\ [](isLoggingIn <=> LoginInFlight)
    /\ [][\A c \in Callers :
            /\ \A status \in LoginStatuses :
                  LoginResponse(c, status) => (~isLoggingIn' /\ ~LoginInFlight')
            /\ (nCalls' = nCalls + 1 /\ calls'[c] /= calls[c] /\ loginInfo = Null
                  /\ ~LoginInFlight) =>
                  /\ calls'[c].pc = "login" /\ calls'[c].req.kind = "login"
                  /\ isLoggingIn'
                  /\ loginsSent' = loginsSent + 1
         ]_vars
\* the login of one call has failed and the other call's login is in flight
C25_Witness ==
    \E c, d \in Callers :
        /\ calls[c].pc = "done" /\ calls[c].loginThrew
        /\ calls[d].pc = "login" /\ calls[d].req.kind = "login"
        /\ isLoggingIn

(***************************************************************************)
(* C26  The stored session is never cleared.  The session, the Cookie      *)
(* default and the base URL change only in the step of a login answered    *)
(* 200, which stores a session; every other step, a 401 answer to a        *)
(* request and a failed login or re-login included, leaves the three as    *)
(* they were.  The Cookie default is always that of the stored session.    *)
(***************************************************************************)
C26_SessionNeverCleared ==
    /\ [](IF loginInfo = Null THEN cookie = 0 /\ ~baseURL
                              ELSE cookie = loginInfo.sid /\ baseURL)
    /\ [][/\ loginInfo /= Null => loginInfo' /= Null
          /\ <<loginInfo, cookie, baseURL>>' /= <<loginInfo, cookie, baseURL>> =>
                \E c \in Callers : LoginResponse(c, 200)
          /\ \A c \in Callers, status \in LoginStatuses \ {200} :
                LoginResponse(c, status) => UNCHANGED <<loginInfo, cookie, baseURL>>
          /\ \A c \in Callers :
                ResourceResponse(c, 401, NullBody) => UNCHANGED <<loginInfo, cookie, baseURL>>
         ]_vars
\* the re-login after a 401 has failed and the first session is still stored
C26_Witness ==
    /\ loginInfo = [sid |-> 1] /\ cookie = 1 /\ baseURL
    /\ \E c \in Callers : calls[c].reloginThrew /\ calls[c].pc = "done"

(***************************************************************************)
(* C27  When every page declares the same total T and no request fails, a  *)
(* list call sends at most max(1, T) page requests: the pages requested    *)
(* are 1, 2, 3, ... without gap or repetition, one request each, and the   *)
(* call does not ask for a page beyond max(1, T).  (Every page request     *)
(* carries the page size Size.)                                            *)
(***************************************************************************)
SameTotal(c) == \A i \in 1..Len(calls[c].totals) : calls[c].totals[i] = calls[c].totals[1]
NothingFailed(c) == n401 = 0 /\ calls[c].thrown = Error(<<>>) /\ ~calls[c].loginThrew
PageBound(c) ==
    IF calls[c].totals = <<>> \/ calls[c].totals[1] < 1 THEN 1 ELSE calls[c].totals[1]

C27_PagesBoundedByTotal ==
    \A c \in Callers :
        (calls[c].op \in ListOps /\ SameTotal(c) /\ NothingFailed(c)) =>
            /\ Len(calls[c].totals) = Len(calls[c].pages)
            /\ calls[c].resSent <= PageBound(c)
            /\ calls[c].pc = "req" =>
                  /\ calls[c].step = Len(calls[c].pages) + 1
                  /\ calls[c].resSent = calls[c].step
            /\ ListDone(c) =>
                  /\ calls[c].step = Len(calls[c].pages)
                  /\ calls[c].resSent = calls[c].step
\* both pages declared a total of 2 and had one item: two requests
C27_Witness ==
    \E c \in Callers :
        /\ ListDone(c) /\ NothingFailed(c)
        /\ calls[c].pages = <<1, 1>> /\ calls[c].totals = <<2, 2>>
        /\ calls[c].resSent = 2

(***************************************************************************)
(* C28  A 401 answer to a login request starts no login and no replay of   *)
(* the login request.  A login request is sent only by an accessor's       *)
(* login() at the start of a call or by the interceptor for a 401 of a     *)
(* resource request, one request per login(); the answer to it ends that   *)
(* login(): answered 200, it has stored a new session, otherwise it has    *)
(* failed and no login request is in flight for the call.                  *)
(***************************************************************************)
C28_NoNestedLogin ==
    /\ [](\A c \in Callers : ~calls[c].nested)
    /\ [][/\ loginsSent' \in {loginsSent, loginsSent + 1}
          /\ loginsSent' = loginsSent + 1 =>
                \E c \in Callers :
                    /\ calls'[c].req.kind = "login"
                    /\ \/ calls[c].pc \in {"idle", "done"} /\ calls'[c].pc = "login"
                       \/ calls[c].pc = "req" /\ calls'[c].pc = "relogin"
          /\ \A c \in Callers, status \in LoginStatuses :
                (calls[c].pc \in {"login", "relogin"} /\ LoginResponse(c, status)) =>
                    /\ loginsSent' = loginsSent
                    /\ calls'[c].req.kind /= "login"
                    /\ IF status = 200
                       THEN loginInfo' = [sid |-> sidsIssued + 1] /\ calls'[c].pc = "req"
                       ELSE /\ loginInfo' = loginInfo
                            /\ IF calls[c].pc = "login"
                               THEN calls'[c].loginThrew /\ calls'[c].pc = "done"
                               ELSE /\ calls'[c].thrown = handleAxiosError(AxiosError(401))
                                    /\ calls'[c].replays <= calls[c].replays
                                    /\ \/ calls'[c].reloginThrew /\ calls'[c].pc = "done"
                                       \/ /\ calls[c].op = "getMetrics"
                                          /\ calls'[c].step = calls[c].step + 1
         ]_vars
\* the login request of a call was answered 401: one login request was sent
\* and the call has failed
C28_Witness ==
    \E c \in Callers :
        /\ calls[c].pc = "done" /\ calls[c].loginThrew
        /\ calls[c].result.error = LoginError(401)
        /\ loginsSent = 1
        /\ loginInfo = Null

(***************************************************************************)
(* C29  Every tool invocation that finds an API key constructs its own     *)
(* SwanLabApi instance: no two invocations use the same instance and no    *)
(* two instances hold the same session.  The accessor call of each         *)
(* invocation finds no session and no login in flight, so it sends its own *)
(* login request and never takes the wait of login(); the fields of an     *)
(* invocation's instance change only in the steps of that invocation's own *)
(* call.                                                                   *)
(***************************************************************************)
Ready(c) == tools[c].pc = "ready"

C29_OwnInstancePerInvocation ==
    /\ [](\A c \in Callers :
            /\ Ready(c) => tools[c].api \in 1..Len(apis)
            /\ calls[c].op /= "none" =>
                  /\ Ready(c)
                  /\ calls[c].noSession /\ calls[c].sentLogin /\ ~calls[c].waited
            /\ \A d \in Callers \ {c} :
                  (Ready(c) /\ Ready(d)) =>
                      /\ tools[c].api /= tools[d].api
                      /\ FieldsOf(tools[c].api).loginInfo /= Null =>
                            FieldsOf(tools[c].api).loginInfo /= FieldsOf(tools[d].api).loginInfo)
    /\ [][\A c \in Callers :
            (Ready(c) /\ calls'[c] = calls[c] /\ tools'[c] = tools[c]) =>
                FieldsOf(tools[c].api)' = FieldsOf(tools[c].api)]_vars
\* the logins of two invocations are in flight at the same time, each on its
\* own instance
C29_Witness ==
    \E c, d \in Callers :
        /\ c /= d
        /\ Ready(c) /\ Ready(d) /\ tools[c].api /= tools[d].api
        /\ calls[c].pc = "login" /\ calls[d].pc = "login"
        /\ FieldsOf(tools[c].api).isLoggingIn /\ FieldsOf(tools[d].api).isLoggingIn

(***************************************************************************)
(* C30  invoke returns a result and raises nothing to the host.  Without   *)
(* an API key it returns the not-configured result; no instance has been   *)
(* constructed and no request has been sent for that invocation.  With a   *)
(* key it returns the formatted result of the accessor, or, when the       *)
(* accessor failed (a failed login included), a text with the error's      *)
(* message.                                                                *)
(***************************************************************************)
C30_InvokeReturnsResult ==
    /\ Len(apis) = Cardinality({c \in Callers : Ready(c)})
    /\ \A c \in Callers :
          /\ tools[c].pc \in {"prompt", "returned"} =>
                tools[c].api = 0 /\ calls[c] = IdleCall
          /\ ToolReturned(c) =>
                /\ ToolResult(c).kind \in {"notConfigured", "result", "errorText"}
                /\ tools[c].pc = "returned" => ToolResult(c) = NotConfigured
                /\ (Ready(c) /\ calls[c].result.ok) =>
                      /\ ToolResult(c).kind = "result"
                      /\ ToolResult(c).text = calls[c].result.value
                /\ (Ready(c) /\ ~calls[c].result.ok) =>
                      /\ ToolResult(c).kind = "errorText"
                      /\ Len(ToolResult(c).text) = Len(calls[c].result.error.msg) + 1
                      /\ \A i \in 1..Len(calls[c].result.error.msg) :
                            ToolResult(c).text[i + 1] = calls[c].result.error.msg[i]
\* one invocation found no key and returned the not-configured result; the
\* login of the other failed and it returned the error's text
C30_Witness ==
    \E c, d \in Callers :
        /\ tools[d].pc = "returned" /\ ToolResult(d) = NotConfigured
        /\ ToolReturned(c) /\ calls[c].loginThrew
        /\ ToolResult(c) = [kind |-> "errorText", text |-> <<"Error">> \o LoginError(401).msg]
        /\ loginsSent = 1

====
